---- MODULE Spec2Model ----
(***************************************************************************)
(* A state-machine model of the VimAI editor (src/vimai.py): the modal     *)
(* key dispatcher of VimTextEdit / VimAIEditor, the command line, the      *)
(* in-memory file tree and the save / open operations.                     *)
(*                                                                         *)
(* The editor buffer is a sequence of lines, a line a sequence of          *)
(* one-character strings.  The Qt text document (cursor movement, edits,   *)
(* undo / redo history) is library code: it is modelled at its call sites  *)
(* by what QPlainTextEdit documents.  Status-bar texts other than the mode *)
(* label are display only and are not part of the state.                   *)
(***************************************************************************)
EXTENDS Integers, Sequences, FiniteSets, TLC

\* ------------------------------------------------------------------ bounds
\* The buffer holds at most MaxLines lines of at most MaxLineLen characters.
MaxLines == 2
MaxLineLen == 1
\* The undo and redo histories together hold at most MaxUndo steps.
MaxUndo == 2
\* At most MaxNewNodes nodes are added to the starter tree.
MaxNewNodes == 1
\* QApplication.processEvents() is re-entered at most MaxNest deep.
MaxNest == 2
\* At most MaxProcs external processes are alive at a time, and the terminal
\* panel holds at most MaxTerminal pieces of text.
MaxProcs == 1
MaxTerminal == 4
\* At most MaxTemps temp files of Run are on disk.
MaxTemps == 1
\* The lines of a text given to the linter.
MaxLintLines == 2

None == "None"
NL == "\n"

\* --------------------------------------------------------------- key events
\* A QKeyEvent: key() (the named keys, "Char" for a printable key), text()
\* and modifiers().
Ev(k, t, m) == [key |-> k, text |-> t, mods |-> m]

Key_Escape == Ev("Escape", "ESC", "none")
Key_Return == Ev("Return", "CR", "none")
Key_Backspace == Ev("Backspace", "BS", "none")
Plain(c) == Ev("Char", c, "none")
Shift(c) == Ev("Char", c, "shift")
Ctrl_r == Ev("Char", "^R", "ctrl")
Ctrl_z == Ev("Char", "^Z", "ctrl")

\* The characters of the keys pressed in normal mode, typed in insert mode
\* and typed on the command line.
VimChars == {":", "i", "a", "h", "j", "k", "l", "x", "d", "u", "g", "G", "r"}
TypedChars == {"d"}
CommandLines ==
    { <<":", "w">>, <<":", "w", "q">>, <<":", "w", "x">>, <<":", "q">>,
      <<":", "x">>, <<":", "f", "i", "x">> }
\* The command lines that switch the file: `:e README.md`, and `:e x` for a
\* name no file has.
OpenCommandLines ==
    { <<":", "e", " ", "R", "E", "A", "D", "M", "E", ".", "m", "d">>,
      <<":", "e", " ", "x">> }
CommandChars ==
    UNION { {cl[i] : i \in 1..Len(cl)} : cl \in CommandLines \cup OpenCommandLines }

Events ==
    {Key_Escape, Key_Return, Key_Backspace, Ctrl_r, Ctrl_z, Shift(":"), Shift("G")}
      \cup {Plain(c) : c \in VimChars \cup TypedChars \cup CommandChars}

\* ------------------------------------------------------------ text buffers
IsPrefix(p, s) == Len(p) <= Len(s) /\ SubSeq(s, 1, Len(p)) = p

EmptyText == << <<>> >>

RECURSIVE Flatten(_)
\* toPlainText(): the lines joined by newlines.
Flatten(t) ==
    IF Len(t) = 1 THEN t[1] ELSE t[1] \o <<NL>> \o Flatten(Tail(t))

RECURSIVE SplitLines(_)
\* The inverse: the blocks of a plain text.
SplitLines(f) ==
    IF \A i \in 1..Len(f) : f[i] # NL THEN <<f>>
    ELSE LET k == CHOOSE i \in 1..Len(f) :
                      f[i] = NL /\ \A j \in 1..(i - 1) : f[j] # NL
         IN <<SubSeq(f, 1, k - 1)>> \o SplitLines(SubSeq(f, k + 1, Len(f)))

RECURSIVE LineStart(_, _)
\* The document position of the first character of line r.
LineStart(t, r) == IF r = 1 THEN 0 ELSE LineStart(t, r - 1) + Len(t[r - 1]) + 1

PosOf(t, cur) == LineStart(t, cur.r) + cur.c

DocLen(t) == Len(Flatten(t))

\* The cursor (line, column) at document position p.
CursorAt(t, p) ==
    LET r == CHOOSE i \in 1..Len(t) :
                 LineStart(t, i) <= p /\ p <= LineStart(t, i) + Len(t[i])
    IN [r |-> r, c |-> p - LineStart(t, r)]

Min(a, b) == IF a < b THEN a ELSE b
Max(a, b) == IF a > b THEN a ELSE b

InBounds(t) ==
    Len(t) <= MaxLines /\ \A i \in 1..Len(t) : Len(t[i]) <= MaxLineLen

\* A document state: the text and the text cursor.
Doc(t, cur) == [text |-> t, cursor |-> cur]

\* QTextCursor movement (moveCursor).
MoveLeft(t, cur) == CursorAt(t, Max(0, PosOf(t, cur) - 1))
MoveRight(t, cur) == CursorAt(t, Min(DocLen(t), PosOf(t, cur) + 1))
MoveDown(t, cur) ==
    IF cur.r = Len(t) THEN cur
    ELSE [r |-> cur.r + 1, c |-> Min(cur.c, Len(t[cur.r + 1]))]
MoveUp(t, cur) ==
    IF cur.r = 1 THEN cur
    ELSE [r |-> cur.r - 1, c |-> Min(cur.c, Len(t[cur.r - 1]))]
MoveStart(t, cur) == [r |-> 1, c |-> 0]
MoveEnd(t, cur) == [r |-> Len(t), c |-> Len(t[Len(t)])]

\* Insertion of the plain text f (characters and newlines) at the cursor.
InsertFlat(t, cur, f) ==
    LET old == Flatten(t)
        p == PosOf(t, cur)
        new == SplitLines(SubSeq(old, 1, p) \o f \o SubSeq(old, p + 1, Len(old)))
    IN Doc(new, CursorAt(new, p + Len(f)))

\* Removal of the document positions p+1 .. p+n; the cursor ends at p.
RemoveFlat(t, p, n) ==
    LET old == Flatten(t)
        new == SplitLines(SubSeq(old, 1, p) \o SubSeq(old, p + n + 1, Len(old)))
    IN Doc(new, CursorAt(new, p))

\* QTextCursor.deleteChar(): the character after the cursor.
DeleteChar(t, cur) ==
    IF PosOf(t, cur) = DocLen(t) THEN Doc(t, cur) ELSE RemoveFlat(t, PosOf(t, cur), 1)

\* Backspace: the character before the cursor.
DeletePreviousChar(t, cur) ==
    IF PosOf(t, cur) = 0 THEN Doc(t, cur) ELSE RemoveFlat(t, PosOf(t, cur) - 1, 1)

RemoveLineKeepingBreak(t, cur) ==
    RemoveFlat(t, LineStart(t, cur.r), Len(t[cur.r]))

\* cursor.select(LineUnderCursor); cursor.removeSelectedText(): the text of
\* the line is removed, the line break after it is not part of the selection.
RemoveLineUnderCursor(t, cur) == RemoveLineKeepingBreak(t, cur)


\* The document position the cursor is left at when the text `old` is
\* replaced by `new` by one undo or redo step: the end of the change.
UndoCursor(old, new) ==
    LET fo == Flatten(old)
        fn == Flatten(new)
        n == Min(Len(fo), Len(fn))
        p == IF \A i \in 1..n : fo[i] = fn[i] THEN n
             ELSE (CHOOSE i \in 1..n :
                       fo[i] # fn[i] /\ \A j \in 1..(i - 1) : fo[j] = fn[j]) - 1
    IN CursorAt(new, IF Len(fn) > Len(fo) THEN p + (Len(fn) - Len(fo)) ELSE p)

\* ------------------------------------------------------------ the file tree
\* VirtualFileSystemModel.root: nodes are numbered, 0 is the root; `nodes`
\* holds each node's name, type and (for a file) content, `children` the
\* ordered children list of each directory.
RootId == 0

N_src == <<"s", "r", "c">>
N_docs == <<"d", "o", "c", "s">>
N_main_py == <<"m", "a", "i", "n", ".", "p", "y">>
N_utils_py == <<"u", "t", "i", "l", "s", ".", "p", "y">>
N_testing_c == <<"t", "e", "s", "t", "i", "n", "g", ".", "c">>
N_testing_cpp == <<"t", "e", "s", "t", "i", "n", "g", ".", "c", "p", "p">>
N_README_md == <<"R", "E", "A", "D", "M", "E", ".", "m", "d">>
N_workspace == <<"w", "o", "r", "k", "s", "p", "a", "c", "e">>
N_n == <<"n">>

\* The names typed into the New File dialog.
NewNames == {N_n, N_main_py}
\* Names of new files that Run meets: a script for node, a Java class, an
\* upper-case extension, and a name without a dot.
RunNames ==
    { <<"a", ".", "j", "s">>, <<"a", ".", "j", "a", "v", "a">>,
      <<"a", ".", "P", "Y">>, N_n }

Dir(name) == [name |-> name, type |-> "dir", content |-> <<>>]
File(name, content) == [name |-> name, type |-> "file", content |-> content]

\* The starter contents, character by character.
C_main_py ==
    <<
       <<"#", " ", "P", "y", "t", "h", "o", "n", " ", "s", "t", "a", "r",
         "t", "e", "r", " ", "c", "o", "d", "e">>,
       <<"p", "r", "i", "n", "t", "(", "\"", "H", "e", "l", "l", "o", " ",
         "V", "i", "m", "A", "I", "!", "\"", ")">>
    >>
C_utils_py ==
    <<
       <<"#", " ", "U", "t", "i", "l", "i", "t", "y", " ", "f", "u", "n",
         "c", "t", "i", "o", "n", "s">>,
       <<"d", "e", "f", " ", "g", "r", "e", "e", "t", "(", "n", "a", "m",
         "e", ")", ":">>,
       <<" ", " ", " ", " ", "r", "e", "t", "u", "r", "n", " ", "f", "\"",
         "H", "e", "l", "l", "o", " ", "{", "n", "a", "m", "e", "}", "\"">>
    >>
C_testing_c ==
    <<
       <<"#", "i", "n", "c", "l", "u", "d", "e", " ", "<", "s", "t", "d",
         "i", "o", ".", "h", ">">>,
       <<>>,
       <<"i", "n", "t", " ", "m", "a", "i", "n", "(", ")", " ", "{">>,
       <<" ", " ", " ", " ", "p", "r", "i", "n", "t", "f", "(", "\"", "H",
         "e", "l", "l", "o", ",", " ", "C", " ", "W", "o", "r", "l", "d",
         "!", "\\", "n", "\"", ")", ";">>,
       <<" ", " ", " ", " ", "r", "e", "t", "u", "r", "n", " ", "0", ";">>,
       <<"}">>
    >>
C_testing_cpp ==
    <<
       <<"#", "i", "n", "c", "l", "u", "d", "e", " ", "<", "i", "o", "s",
         "t", "r", "e", "a", "m", ">">>,
       <<>>,
       <<"i", "n", "t", " ", "m", "a", "i", "n", "(", ")", " ", "{">>,
       <<" ", " ", " ", " ", "s", "t", "d", ":", ":", "c", "o", "u", "t",
         " ", "<", "<", " ", "\"", "H", "e", "l", "l", "o", ",", " ", "C",
         "+", "+", " ", "W", "o", "r", "l", "d", "!", "\"", " ", "<", "<",
         " ", "s", "t", "d", ":", ":", "e", "n", "d", "l", ";">>,
       <<" ", " ", " ", " ", "r", "e", "t", "u", "r", "n", " ", "0", ";">>,
       <<"}">>
    >>
C_README_md ==
    <<
       <<"#", " ", "P", "r", "o", "j", "e", "c", "t", " ", "D", "o", "c",
         "u", "m", "e", "n", "t", "a", "t", "i", "o", "n">>,
       <<>>,
       <<"T", "h", "i", "s", " ", "i", "s", " ", "a", " ", "V", "i", "m",
         "A", "I", " ", "p", "r", "o", "j", "e", "c", "t", ".">>
    >>

InitNodes ==
    (0 :> Dir(N_workspace)) @@ (1 :> Dir(N_src)) @@ (2 :> Dir(N_docs))
      @@ (3 :> File(N_main_py, C_main_py)) @@ (4 :> File(N_utils_py, C_utils_py))
      @@ (5 :> File(N_testing_c, C_testing_c))
      @@ (6 :> File(N_testing_cpp, C_testing_cpp))
      @@ (7 :> File(N_README_md, C_README_md))

InitChildren == (0 :> <<1, 2>>) @@ (1 :> <<3, 4, 5, 6>>) @@ (2 :> <<7>>)

StarterNodes == 7
NodeIds == 0..(StarterNodes + MaxNewNodes)

RECURSIVE PreOrder(_, _, _)
\* The nodes below the items `ids`, in the order the recursive searches
\* (update_file_content, search_and_open, get_file_content) visit them.
PreOrder(ns, ch, ids) ==
    IF ids = <<>> THEN <<>>
    ELSE LET h == Head(ids)
             below == IF ns[h].type = "dir" THEN PreOrder(ns, ch, ch[h]) ELSE <<>>
         IN <<h>> \o below \o PreOrder(ns, ch, Tail(ids))

\* The first file called `filename` in search order, or -1.
FirstFileNamed(ns, ch, filename) ==
    LET order == PreOrder(ns, ch, ch[RootId])
        hits == {i \in 1..Len(order) :
                    ns[order[i]].type = "file" /\ ns[order[i]].name = filename}
    IN IF hits = {} THEN -1
       ELSE order[CHOOSE i \in hits : \A j \in hits : i <= j]

RECURSIVE Same(_, _, _, _)
\* `child == target` on two items of the tree: the comparison of two dicts,
\* by their keys and values (name, type, and content or the children lists
\* item by item), not by identity.
Same(ns, ch, a, b) ==
    /\ ns[a].name = ns[b].name
    /\ ns[a].type = ns[b].type
    /\ IF ns[a].type = "file" THEN ns[a].content = ns[b].content
       ELSE /\ Len(ch[a]) = Len(ch[b])
            /\ \A i \in 1..Len(ch[a]) : Same(ns, ch, ch[a][i], ch[b][i])

RECURSIVE find_parent(_, _, _, _)
RECURSIVE find_in_children(_, _, _, _, _)
\* find_parent(current, target): the item `current` when one of its
\* children equals the target, else what the search below its children
\* finds, in order; -1 is None.
find_parent(ns, ch, current, target) ==
    IF ns[current].type = "dir"
    THEN find_in_children(ns, ch, current, ch[current], target)
    ELSE -1

\* The loop of find_parent over the children of `current` not yet visited.
find_in_children(ns, ch, current, rest, target) ==
    IF rest = <<>> THEN -1
    ELSE IF Same(ns, ch, Head(rest), target) THEN current
    ELSE LET found == find_parent(ns, ch, Head(rest), target)
         IN IF found # -1 THEN found
            ELSE find_in_children(ns, ch, current, Tail(rest), target)

\* The directory whose children list holds the node, and the node's row in
\* it: what index(row, column, parent) made the node's index from.
Container(ch, id) ==
    CHOOSE d \in DOMAIN ch : \E i \in 1..Len(ch[d]) : ch[d][i] = id
RowOf(ch, id) ==
    CHOOSE i \in 1..Len(ch[Container(ch, id)]) : ch[Container(ch, id)][i] = id

\* The characters the keyboard of the model produces.
Chars == VimChars \cup TypedChars \cup CommandChars

\* A content the bounded buffer can hold character by character.
Editable(content) ==
    InBounds(content)
      /\ \A i \in 1..Len(content) : \A j \in 1..Len(content[i]) : content[i][j] \in Chars


\* ------------------------------------------------------------------- state
VARIABLES
    vim_mode, command_mode, insert_mode, mode_label,  \* VimAIEditor mode flags
    last_action, command_buffer,                      \* dispatcher memory
    current_file, modified, language,                 \* the open file
    text, cursor, undoStack, redoStack,               \* the editor document
    nodes, children,                                  \* file_model.root
    gutter, lint_timer,                               \* line_number_area, auto_lint_timer
    ai_output, terminal_output,                       \* the two output panels
    temp_files, procs,                                \* Run: files on disk, QProcesses
    closed,                                           \* close() was called, or the process aborted
    raised,                                           \* the exception that escaped a slot
    ai_ready, aiDepth,                                \* call_ai calls inside processEvents()
    opened_node,       \* observer: the node whose content was last loaded
    last_key,          \* observer: the last key event and the mode it met
    key_run,           \* observer: 0, or 1 and 2 in turn while the last key event repeats
    calls,             \* observer: the calls made by the last key handler
    executed,          \* observer: the command that key handler dispatched
    dispatches         \* observer: execute_vim_command calls since ':' was typed

vars ==
    << vim_mode, command_mode, insert_mode, mode_label, last_action,
       command_buffer, current_file, modified, language, text, cursor,
       undoStack, redoStack, nodes, children, gutter, lint_timer, ai_output,
       terminal_output, temp_files, procs, closed, raised, ai_ready, aiDepth,
       opened_node, last_key, key_run, calls, executed, dispatches >>

\* The state as one record, so that a handler is a function from the state
\* before it to the state after it and the calls it makes compose.
State ==
    [ vim_mode |-> vim_mode, command_mode |-> command_mode,
      insert_mode |-> insert_mode, mode_label |-> mode_label,
      last_action |-> last_action, command_buffer |-> command_buffer,
      current_file |-> current_file, modified |-> modified,
      language |-> language, text |-> text, cursor |-> cursor,
      undoStack |-> undoStack, redoStack |-> redoStack, nodes |-> nodes,
      children |-> children, gutter |-> gutter, lint_timer |-> lint_timer,
      ai_output |-> ai_output, terminal_output |-> terminal_output,
      temp_files |-> temp_files, procs |-> procs,
      closed |-> closed, raised |-> raised, ai_ready |-> ai_ready, aiDepth |-> aiDepth,
      opened_node |-> opened_node, last_key |-> last_key,
      key_run |-> key_run, calls |-> calls, executed |-> executed,
      dispatches |-> dispatches ]

Becomes(s) ==
    /\ vim_mode' = s.vim_mode
    /\ command_mode' = s.command_mode
    /\ insert_mode' = s.insert_mode
    /\ mode_label' = s.mode_label
    /\ last_action' = s.last_action
    /\ command_buffer' = s.command_buffer
    /\ current_file' = s.current_file
    /\ modified' = s.modified
    /\ language' = s.language
    /\ text' = s.text
    /\ cursor' = s.cursor
    /\ undoStack' = s.undoStack
    /\ redoStack' = s.redoStack
    /\ nodes' = s.nodes
    /\ children' = s.children
    /\ gutter' = s.gutter
    /\ lint_timer' = s.lint_timer
    /\ ai_output' = s.ai_output
    /\ terminal_output' = s.terminal_output
    /\ temp_files' = s.temp_files
    /\ procs' = s.procs
    /\ closed' = s.closed
    /\ raised' = s.raised
    /\ ai_ready' = s.ai_ready
    /\ aiDepth' = s.aiDepth
    /\ opened_node' = s.opened_node
    /\ last_key' = s.last_key
    /\ key_run' = s.key_run
    /\ executed' = s.executed
    /\ calls' = s.calls
    /\ dispatches' = s.dispatches

NoFile == <<>>
NoNode == -1
NoKey == [ev |-> Ev("None", "", "none"), mode |-> "normal"]
NoCommand == <<"(none)">>
EmptyMap == <<>>
EmptyGutter ==
    [ error_lines |-> {}, warning_lines |-> {}, info_lines |-> {},
      error_messages |-> EmptyMap, warning_messages |-> EmptyMap,
      info_messages |-> EmptyMap ]

Msg(kind, arg) == [kind |-> kind, arg |-> arg]

\* The call `name` is recorded as made by the running key handler.
Call(s, name) == [s EXCEPT !.calls = Append(@, name)]

\* -------------------------------------------------- the document's signals
set_modified(s) ==
    IF ~s.modified /\ s.current_file # NoFile
    THEN [s EXCEPT !.modified = TRUE]
    ELSE s

\* A trigger_auto_lint that starts no timer.
trigger_auto_lint_never(s) == s

\* trigger_auto_lint: auto_lint_timer.start(1000) starts the single-shot
\* timer, or restarts it when it is running.
trigger_auto_lint(s) == [s EXCEPT !.lint_timer = TRUE]

\* editor.textChanged is connected to set_modified and trigger_auto_lint.
textChanged(s) == trigger_auto_lint(set_modified(s))

\* An edit of the document through a text cursor: a change of the text is
\* one step of the undo history and drops the redo history.
Edit(s, d) ==
    IF d.text = s.text THEN [s EXCEPT !.cursor = d.cursor]
    ELSE textChanged([s EXCEPT !.text = d.text, !.cursor = d.cursor,
                               !.undoStack = <<s.text>> \o @,
                               !.redoStack = <<>>])

moveCursor(s, cur) == [s EXCEPT !.cursor = cur]

\* editor.undo()
undo(s) ==
    IF s.undoStack = <<>> THEN s
    ELSE LET new == Head(s.undoStack)
         IN textChanged([s EXCEPT !.text = new,
                                  !.cursor = UndoCursor(s.text, new),
                                  !.undoStack = Tail(@),
                                  !.redoStack = <<s.text>> \o @])

\* editor.redo()
redo(s) ==
    IF s.redoStack = <<>> THEN s
    ELSE LET new == Head(s.redoStack)
         IN textChanged([s EXCEPT !.text = new,
                                  !.cursor = UndoCursor(s.text, new),
                                  !.redoStack = Tail(@),
                                  !.undoStack = <<s.text>> \o @])

\* editor.setPlainText(content): the document is replaced and its undo
\* history reset.
setPlainText(s, content) ==
    textChanged([s EXCEPT !.text = content, !.cursor = [r |-> 1, c |-> 0],
                          !.undoStack = <<>>, !.redoStack = <<>>])

\* -------------------------------------------------------------- mode setters
\* A set_normal_mode that leaves insert_mode as it is.
set_normal_mode_keeping_insert(s) ==
    [s EXCEPT !.vim_mode = TRUE, !.command_mode = FALSE, !.mode_label = "NORMAL"]

set_normal_mode(s) ==
    [s EXCEPT !.vim_mode = TRUE, !.command_mode = FALSE, !.insert_mode = FALSE,
              !.mode_label = "NORMAL"]

\* A set_insert_mode that leaves the mode label as it was.
set_insert_mode_unlabelled(s) ==
    [s EXCEPT !.vim_mode = TRUE, !.command_mode = FALSE, !.insert_mode = TRUE]

set_insert_mode(s) ==
    [s EXCEPT !.vim_mode = TRUE, !.command_mode = FALSE, !.insert_mode = TRUE,
              !.mode_label = "INSERT"]

set_command_mode(s) ==
    [s EXCEPT !.vim_mode = TRUE, !.command_mode = TRUE, !.insert_mode = FALSE,
              !.command_buffer = <<":">>, !.mode_label = "COMMAND",
              !.dispatches = 0]


\* ------------------------------------------------------------ the gutter
\* LineNumberArea.set_errors / set_warnings / set_info: the line set is
\* replaced; the message map only when the new one is not empty.
SeqToSet(q) == {q[i] : i \in 1..Len(q)}

set_errors(g, lines, messages) ==
    [g EXCEPT !.error_lines = SeqToSet(lines),
              !.error_messages = IF messages # EmptyMap THEN messages ELSE @]

set_warnings(g, lines, messages) ==
    [g EXCEPT !.warning_lines = SeqToSet(lines),
              !.warning_messages = IF messages # EmptyMap THEN messages ELSE @]

set_info(g, lines, messages) ==
    [g EXCEPT !.info_lines = SeqToSet(lines),
              !.info_messages = IF messages # EmptyMap THEN messages ELSE @]

\* ---------------------------------------------------------------- lint_code
Contains(line, pat) ==
    \E i \in 1..(Len(line) - Len(pat) + 1) : SubSeq(line, i, i + Len(pat) - 1) = pat

RECURSIVE Strip(_)
\* str.strip() for the blank the keyboard produces.
Strip(l) ==
    IF l = <<>> THEN l
    ELSE IF Head(l) = " " THEN Strip(Tail(l))
    ELSE IF l[Len(l)] = " " THEN Strip(SubSeq(l, 1, Len(l) - 1))
    ELSE l

EndsWith(l, p) == Len(p) <= Len(l) /\ SubSeq(l, Len(l) - Len(p) + 1, Len(l)) = p

P_import == <<"i", "m", "p", "o", "r", "t">>
P_from == <<"f", "r", "o", "m">>
P_import_os == <<"i", "m", "p", "o", "r", "t", " ", "o", "s">>
P_print == <<"p", "r", "i", "n", "t", "(">>
P_fquote == <<"f", "\"">>
P_quote == <<"'">>
P_TODO == <<"T", "O", "D", "O">>
P_FIXME == <<"F", "I", "X", "M", "E">>
P_indent == <<" ", " ", " ", " ">>

ImportIssue(lines, i) ==
    Contains(lines[i], P_import) /\ ~Contains(lines[i], P_from)
      /\ ~Contains(lines[i], P_import_os)
PrintIssue(lines, i) ==
    Contains(lines[i], P_print) /\ ~Contains(lines[i], P_fquote)
      /\ ~Contains(lines[i], P_quote)
TodoIssue(lines, i) == Contains(lines[i], P_TODO) \/ Contains(lines[i], P_FIXME)
IndentIssue(lines, i) ==
    /\ Contains(lines[i], P_indent)
    /\ ~IsPrefix(<<"#">>, Strip(lines[i]))
    /\ i > 1
    /\ ~EndsWith(Strip(lines[i - 1]), <<":">>)

RECURSIVE LintLines(_, _, _)
\* The list error_lines / warning_lines / info_lines as the loop appends to
\* it from line i on; a line can be appended to warning_lines twice.
LintLines(lines, kind, i) ==
    IF i > Len(lines) THEN <<>>
    ELSE LET hit ==
                 CASE kind = "error" -> IF TodoIssue(lines, i) THEN <<i>> ELSE <<>>
                   [] kind = "info" -> IF PrintIssue(lines, i) THEN <<i>> ELSE <<>>
                   [] kind = "warning" ->
                        (IF ImportIssue(lines, i) THEN <<i>> ELSE <<>>)
                          \o (IF IndentIssue(lines, i) THEN <<i>> ELSE <<>>)
         IN hit \o LintLines(lines, kind, i + 1)

MapOf(S, f) == IF S = {} THEN EmptyMap ELSE [i \in S |-> f[i]]

LintMessages(lines, kind) ==
    LET S == SeqToSet(LintLines(lines, kind, 1))
        m == [i \in 1..Len(lines) |->
                 CASE kind = "error" -> "TODO or FIXME found"
                   [] kind = "info" -> "Consider using f-strings for better readability"
                   [] kind = "warning" ->
                        IF IndentIssue(lines, i) THEN "Potential indentation issue"
                        ELSE "Consider using 'from module import name' instead of 'import module'"]
    IN MapOf(S, m)

lint_code(s) ==
    IF s.current_file = NoFile
    THEN [s EXCEPT !.ai_output = <<Msg("No file open to lint", <<>>)>>]
    ELSE LET lines == SplitLines(Flatten(s.text))
             el == LintLines(lines, "error", 1)
             wl == LintLines(lines, "warning", 1)
             il == LintLines(lines, "info", 1)
             g1 == set_errors(s.gutter, el, LintMessages(lines, "error"))
             g2 == set_warnings(g1, wl, LintMessages(lines, "warning"))
             g3 == set_info(g2, il, LintMessages(lines, "info"))
         IN [s EXCEPT !.gutter = g3,
                      !.ai_output = <<Msg("Linting complete",
                                          <<Len(el), Len(wl), Len(il), el, wl, il>>)>>]

\* mouseMoveEvent of the gutter: the tooltip over the indicator of a line,
\* read from the message maps, errors before warnings before info.
Tooltip(g, line_number) ==
    IF line_number \in DOMAIN g.error_messages
    THEN <<"Error", g.error_messages[line_number]>>
    ELSE IF line_number \in DOMAIN g.warning_messages
    THEN <<"Warning", g.warning_messages[line_number]>>
    ELSE IF line_number \in DOMAIN g.info_messages
    THEN <<"Info", g.info_messages[line_number]>>
    ELSE <<>>

\* ------------------------------------------------------- save and open
\* save_file / update_file_content: the first file of the tree whose name is
\* current_file receives the buffer text.
save_file(s) ==
    IF s.current_file = NoFile THEN s
    ELSE LET id == FirstFileNamed(s.nodes, s.children, s.current_file)
         IN IF id # -1
            THEN [s EXCEPT !.nodes[id].content = s.text, !.modified = FALSE,
                           !.ai_output = <<Msg("Saved", s.current_file)>>]
            ELSE [s EXCEPT !.ai_output = <<Msg("Could not save", s.current_file)>>]

\* auto_save: a modified open file is saved, and the line after the save
\* calls appendPlainText on ai_output, a QTextEdit, which has no such
\* method: AttributeError.
auto_save(s) ==
    IF s.modified /\ s.current_file # NoFile
    THEN [save_file(s) EXCEPT !.raised = "AttributeError"]
    ELSE s

\* CodeHighlighter.set_document_language
set_document_language(filename) ==
    LET ends(x) == EndsWith(filename, x)
    IN CASE ends(<<".", "p", "y">>) -> "python"
         [] ends(<<".", "j", "s">>) \/ ends(<<".", "j", "s", "x">>)
              \/ ends(<<".", "t", "s">>) \/ ends(<<".", "t", "s", "x">>) -> "javascript"
         [] ends(<<".", "c">>) -> "c"
         [] ends(<<".", "c", "p", "p">>) \/ ends(<<".", "c", "c">>)
              \/ ends(<<".", "c", "x", "x">>) \/ ends(<<".", "c", "+", "+">>)
              \/ ends(<<".", "h", "p", "p">>) \/ ends(<<".", "h", "x", "x">>) -> "cpp"
         [] ends(<<".", "m", "d">>)
              \/ ends(<<".", "m", "a", "r", "k", "d", "o", "w", "n">>) -> "markdown"
         [] OTHER -> None

\* The statements open_file and search_and_open share: the content is
\* loaded, current_file set, modified cleared, the language chosen.
LoadFile(s, id) ==
    LET s1 == setPlainText(s, s.nodes[id].content)
    IN [s1 EXCEPT !.current_file = s.nodes[id].name, !.modified = FALSE,
                  !.language = set_document_language(s.nodes[id].name),
                  !.opened_node = id]

\* open_file(index): also clears the three line sets of the gutter.
open_file(s, id) ==
    IF s.nodes[id].type = "file"
    THEN LET s1 == LoadFile(s, id)
             g == set_info(set_warnings(set_errors(s1.gutter, <<>>, EmptyMap),
                                        <<>>, EmptyMap), <<>>, EmptyMap)
         IN [s1 EXCEPT !.gutter = g]
    ELSE s

\* A find_and_open_file that closes the open file when it finds none.
find_and_open_file_closing(s, filename) ==
    LET id == FirstFileNamed(s.nodes, s.children, filename)
    IN IF id # -1 THEN LoadFile(s, id)
       ELSE [s EXCEPT !.ai_output = <<Msg("File not found", filename)>>,
                      !.current_file = NoFile, !.modified = FALSE]

\* find_and_open_file / search_and_open
find_and_open_file(s, filename) ==
    LET id == FirstFileNamed(s.nodes, s.children, filename)
    IN IF id # -1 THEN LoadFile(s, id)
       ELSE [s EXCEPT !.ai_output = <<Msg("File not found", filename)>>]


\* ------------------------------------------------------------------ call_ai
\* call_ai: without a model the panel says so; otherwise the panel shows the
\* waiting text and QApplication.processEvents() runs the pending events
\* inside the call, before the request is made (action CallAiReturn).
call_ai(s) ==
    IF ~s.ai_ready
    THEN [s EXCEPT !.ai_output = <<Msg("Gemini AI not available", <<>>)>>]
    ELSE [s EXCEPT !.ai_output = <<Msg("Asking Gemini...", <<>>)>>,
                   !.aiDepth = @ + 1]

explain_code(s) == call_ai(s)

\* ----------------------------------------------------------- run_current_file
Lower(c) ==
    CASE c = "R" -> "r" [] c = "E" -> "e" [] c = "A" -> "a" [] c = "D" -> "d"
      [] c = "M" -> "m" [] c = "G" -> "g" [] c = "P" -> "p" [] c = "Y" -> "y"
      [] OTHER -> c

\* The extension as it is written, not lower-cased.
FileExt_cased(name) ==
    LET dots == {i \in 1..Len(name) : name[i] = "."}
        k == IF dots = {} THEN Len(name) ELSE CHOOSE i \in dots : \A j \in dots : j <= i
    IN [i \in 1..(Len(name) - k + 1) |-> name[k + i - 1]]

\* current_file[current_file.rfind('.'):].lower(); without a dot rfind is -1
\* and the slice is the last character.
FileExt(name) ==
    LET dots == {i \in 1..Len(name) : name[i] = "."}
        k == IF dots = {} THEN Len(name) ELSE CHOOSE i \in dots : \A j \in dots : j <= i
    IN [i \in 1..(Len(name) - k + 1) |-> Lower(name[k + i - 1])]

FreshTemp(s) ==
    CHOOSE t \in 1..(Cardinality(s.temp_files) + 1) : t \notin s.temp_files

\* A QProcess after start(): which callbacks it has (kind), its program,
\* the temp file and extension its callbacks hold, whether they hold an
\* exe_path, and its QProcess state.
Proc(kind, program, temp, ext, exe) ==
    [kind |-> kind, program |-> program, temp |-> temp, ext |-> ext,
     exe |-> exe, state |-> "Starting"]

\* run_single_command: a QProcess is started.
run_single_command(s, program, temp, ext, exe) ==
    [s EXCEPT !.procs = Append(@, Proc("run", program, temp, ext, exe))]

\* run_current_file up to the start of the first process.
run_current_file(s) ==
    IF s.current_file = NoFile
    THEN [s EXCEPT !.terminal_output =
                       Append(@, Msg("Error: No file is currently open", <<>>))]
    ELSE LET s1 == save_file(s)
             id == FirstFileNamed(s1.nodes, s1.children, s1.current_file)
         IN IF id = -1 /\ s1.children[RootId] # <<>>
            THEN [s1 EXCEPT !.terminal_output =
                                Append(@, Msg("Error: Could not find file content", <<>>))]
            ELSE LET ext == FileExt(s1.current_file)
                     t == FreshTemp(s1)
                     s2 == [s1 EXCEPT
                              !.terminal_output = <<Msg("Running", s1.current_file)>>,
                              !.gutter = set_warnings(set_errors(@, <<>>, EmptyMap),
                                                      <<>>, EmptyMap),
                              !.temp_files = @ \cup {t}]
                     compiling(program) ==
                         [s2 EXCEPT !.terminal_output = Append(@, Msg("Compiling with", program)),
                                    !.procs = Append(@, Proc("compile", program, t, ext, FALSE))]
                 IN CASE ext = <<".", "p", "y">> -> run_single_command(s2, "python", t, ext, FALSE)
                      [] ext = <<".", "j", "s">> -> run_single_command(s2, "node", t, ext, FALSE)
                      [] ext = <<".", "j", "a", "v", "a">> -> compiling("javac")
                      [] ext = <<".", "c">> -> compiling("gcc")
                      [] ext = <<".", "c", "p", "p">> -> compiling("g++")
                      [] OTHER ->
                           [s2 EXCEPT !.terminal_output =
                                          Append(@, Msg("Error: Unsupported file type", ext))]

\* A handle_compile_finished that runs the program whatever the exit code.
handle_compile_finished_always(s, p, exit_code) ==
    LET program == IF p.ext = <<".", "j", "a", "v", "a">> THEN "java" ELSE "exe"
    IN run_single_command(
           [s EXCEPT !.terminal_output = Append(@, Msg("Running with", program))],
           program, p.temp, p.ext, program = "exe")

\* handle_compile_finished, of the compile process of a .java file and of a
\* .c or .cpp file: exit code 0 runs the program (java, or the executable,
\* whose path goes to run_single_command), any other is reported.
handle_compile_finished(s, p, exit_code) ==
    IF exit_code = 0
    THEN LET program == IF p.ext = <<".", "j", "a", "v", "a">> THEN "java" ELSE "exe"
         IN run_single_command(
                [s EXCEPT !.terminal_output = Append(@, Msg("Running with", program))],
                program, p.temp, p.ext, program = "exe")
    ELSE [s EXCEPT !.terminal_output =
                       Append(@, Msg("Compilation failed with exit code", exit_code))]

\* handle_finished, of a process started by run_single_command: the exit
\* code is reported and the temp file is removed; `unlinked` is whether the
\* os.unlink calls went through, and when they did not the exception is
\* caught and reported.
handle_finished(s, p, exit_code, unlinked) ==
    LET s1 == [s EXCEPT !.terminal_output =
                            Append(@, Msg("Process finished with exit code", exit_code))]
    IN IF unlinked THEN [s1 EXCEPT !.temp_files = @ \ {p.temp}]
       ELSE [s1 EXCEPT !.terminal_output = Append(@, Msg("Cleanup error", <<>>))]

\* handle_output / handle_compile_output / handle_terminal_output /
\* handle_terminal_error: what the process wrote is appended.
handle_output(s, p) ==
    [s EXCEPT !.terminal_output = Append(@, Msg("output", p.program))]

C_clear == <<"c", "l", "e", "a", "r">>
C_python == <<"p", "y", "t", "h", "o", "n", " ">>

\* execute_terminal_command: Return in the terminal input line. The one
\* terminal_process is started; QProcess.start() on a process that is
\* starting or running warns and does nothing.
execute_terminal_command(s, command) ==
    IF command = <<>> THEN s
    ELSE LET s1 == [s EXCEPT !.terminal_output = Append(@, Msg("$", command))]
         IN IF command = C_clear THEN [s1 EXCEPT !.terminal_output = <<>>]
            ELSE IF /\ IsPrefix(C_python, command)
                    /\ s.current_file # NoFile
                    /\ EndsWith(s.current_file, <<".", "p", "y">>)
            THEN run_current_file(s1)
            ELSE IF \E i \in DOMAIN s.procs : s.procs[i].kind = "terminal" THEN s1
            ELSE [s1 EXCEPT !.procs =
                                Append(@, Proc("terminal", command, 0, <<>>, FALSE))]

\* -------------------------------------------------------- execute_vim_command
C_w == <<":", "w">>
C_wq == <<":", "w", "q">>
C_q == <<":", "q">>
C_e == <<":", "e", " ">>
C_ai == <<":", "a", "i", " ">>
C_fix == <<":", "f", "i", "x">>
C_explain == <<":", "e", "x", "p", "l", "a", "i", "n">>
C_opt == <<":", "o", "p", "t">>
C_test == <<":", "t", "e", "s", "t">>
C_run == <<":", "r", "u", "n">>
C_lint == <<":", "l", "i", "n", "t">>

\* self.close(): the window closes and the application ends.
close(s) == [s EXCEPT !.closed = TRUE]

\* A final else that reports nothing.
unknown_command_unreported(s, command) == s

\* The final else of the chain: the command is reported as unknown.
unknown_command(s, command) ==
    [s EXCEPT !.ai_output = <<Msg("Unknown command", command)>>]

\* The if / elif chain of execute_vim_command, in its order.
DispatchCommand(s, command) ==
    IF IsPrefix(C_w, command) THEN save_file(Call(s, "save_file"))
    ELSE IF IsPrefix(C_wq, command)
    THEN close(Call(save_file(Call(s, "save_file")), "close"))
    ELSE IF IsPrefix(C_q, command) THEN close(Call(s, "close"))
    ELSE IF IsPrefix(C_e, command)
    THEN find_and_open_file(Call(s, "find_and_open_file"),
                            Strip(SubSeq(command, 4, Len(command))))
    ELSE IF IsPrefix(C_ai, command) THEN call_ai(Call(s, "call_ai"))
    ELSE IF command = C_fix THEN call_ai(Call(s, "call_ai"))
    ELSE IF command = C_explain THEN explain_code(Call(s, "call_ai"))
    ELSE IF command = C_opt THEN call_ai(Call(s, "call_ai"))
    ELSE IF command = C_test THEN call_ai(Call(s, "call_ai"))
    ELSE IF command = C_run THEN run_current_file(Call(s, "run_current_file"))
    ELSE IF IsPrefix(C_lint, command) THEN lint_code(Call(s, "lint_code"))
    ELSE unknown_command(Call(s, "unknown_command"), command)

execute_vim_command(s, command) ==
    DispatchCommand([s EXCEPT !.dispatches = @ + 1, !.executed = command], command)


\* ------------------------------------------------------------- key handlers
\* VimAIEditor.keyPressEvent: the window's handler, reached by the events
\* the editor widget leaves unhandled.
MainWindow_keyPressEvent(s, ev) ==
    IF s.command_mode \/ s.insert_mode THEN s
    ELSE IF ev.text = ":" THEN set_command_mode(Call(s, "set_command_mode"))
    ELSE IF ev.text = "i" THEN set_insert_mode(Call(s, "set_insert_mode"))
    ELSE IF ev.text = "a"
    THEN set_insert_mode(Call(moveCursor(s, MoveRight(s.text, s.cursor)),
                              "set_insert_mode"))
    ELSE s

\* QPlainTextEdit.keyPressEvent, the widget's own handler: Ctrl+Z is the
\* undo shortcut, Return, Backspace and printable keys edit the text, and a
\* key it has no use for (Ctrl+R, Escape) is left to the parent window.
QPlainTextEdit_keyPressEvent(s, ev) ==
    IF ev = Ctrl_z THEN undo(Call(s, "shortcut_undo"))
    ELSE IF ev.mods = "ctrl" \/ ev.key = "Escape" THEN MainWindow_keyPressEvent(s, ev)
    ELSE IF ev.key = "Return"
    THEN Edit(Call(s, "insert"), InsertFlat(s.text, s.cursor, <<NL>>))
    ELSE IF ev.key = "Backspace"
    THEN Edit(Call(s, "backspace"), DeletePreviousChar(s.text, s.cursor))
    ELSE Edit(Call(s, "insert"), InsertFlat(s.text, s.cursor, <<ev.text>>))

\* The statements of the Return branch after execute_vim_command.
FinishReturn(s) == set_normal_mode([s EXCEPT !.command_buffer = <<>>])

\* The command-mode half of vim_key_handler.
CommandKey(s, ev) ==
    IF ev.key = "Escape" THEN set_normal_mode(Call(s, "set_normal_mode"))
    ELSE IF ev.key = "Return"
    THEN LET s1 == execute_vim_command(s, s.command_buffer)
         IN IF s1.aiDepth > s.aiDepth THEN s1 ELSE FinishReturn(s1)
    ELSE IF ev.key = "Backspace"
    THEN [s EXCEPT !.command_buffer = SubSeq(@, 1, Len(@) - 1)]
    ELSE IF ev.text # "" THEN [s EXCEPT !.command_buffer = Append(@, ev.text)]
    ELSE s

\* An undo branch that does not look at last_action.
UndoGuard_every_u(s, ev) == ev.text = "u"

\* The branch of the normal-mode chain that decides about undo.
UndoGuard(s, ev) == ev.text = "u" /\ s.last_action \notin {"u", "ctrl+r"}

\* The branch that decides about the line deletion.
DeleteLineGuard(s, ev) == ev.text = "d" /\ s.last_action = "d"

\* The normal-mode half of vim_key_handler, entered without modifiers.
NormalKey(s, ev) ==
    IF ev.text = ":" THEN set_command_mode(Call(s, "set_command_mode"))
    ELSE IF ev.text = "i" THEN set_insert_mode(Call(s, "set_insert_mode"))
    ELSE IF ev.text = "a"
    THEN set_insert_mode(Call(moveCursor(s, MoveRight(s.text, s.cursor)),
                              "set_insert_mode"))
    ELSE LET t == s.text
             c == s.cursor
             s1 ==
                 IF ev.text = "h" THEN moveCursor(Call(s, "moveCursor.Left"), MoveLeft(t, c))
                 ELSE IF ev.text = "j" THEN moveCursor(Call(s, "moveCursor.Down"), MoveDown(t, c))
                 ELSE IF ev.text = "k" THEN moveCursor(Call(s, "moveCursor.Up"), MoveUp(t, c))
                 ELSE IF ev.text = "l" THEN moveCursor(Call(s, "moveCursor.Right"), MoveRight(t, c))
                 ELSE IF ev.text = "x" THEN Edit(Call(s, "deleteChar"), DeleteChar(t, c))
                 ELSE IF DeleteLineGuard(s, ev)
                 THEN Edit(Call(s, "removeSelectedText"), RemoveLineUnderCursor(t, c))
                 ELSE IF UndoGuard(s, ev) THEN undo(Call(s, "undo"))
                 ELSE IF ev.mods = "ctrl" /\ ev.text = "r" THEN redo(Call(s, "redo"))
                 ELSE IF ev.text = "G" THEN moveCursor(Call(s, "moveCursor.End"), MoveEnd(t, c))
                 ELSE IF ev.text = "gg" THEN moveCursor(Call(s, "moveCursor.Start"), MoveStart(t, c))
                 ELSE s
         IN [s1 EXCEPT !.last_action = ev.text]

\* `if self.vim_mode and not modifiers`
NoModifiers(ev) == ev.mods = "none"

vim_key_handler(s, ev) ==
    IF s.command_mode THEN CommandKey(s, ev)
    ELSE IF s.vim_mode /\ NoModifiers(ev) THEN NormalKey(s, ev)
    ELSE QPlainTextEdit_keyPressEvent(s, ev)

\* VimTextEdit.keyPressEvent: what a key delivered to the editor does.
keyPressEvent(s, ev) ==
    IF ev.mods = "ctrl" THEN QPlainTextEdit_keyPressEvent(s, ev)
    ELSE IF s.insert_mode
    THEN IF ev.key = "Escape" THEN set_normal_mode(Call(s, "set_normal_mode"))
         ELSE QPlainTextEdit_keyPressEvent(s, ev)
    ELSE vim_key_handler(s, ev)

\* ------------------------------------------------------------------ actions
Mode == IF command_mode THEN "command" ELSE IF insert_mode THEN "insert" ELSE "normal"

\* A bounded keyboard: the keys delivered in normal mode, the keys delivered
\* in insert mode, and the command lines that are typed.
Keyboard(normal, insert, lines) == [normal |-> normal, insert |-> insert, lines |-> lines]

\* On the command line the typed characters follow one of the lines, Return
\* ends a line that is complete, and Escape, Backspace and Ctrl+Z can be
\* pressed at any point.
CommandEvents(buffer, lines) ==
    {Key_Escape, Key_Backspace, Ctrl_z}
      \cup {e \in {Key_Return} : buffer \in lines}
      \cup {e \in Events : e.key = "Char" /\ e.mods # "ctrl"
                            /\ \E cl \in lines : IsPrefix(Append(buffer, e.text), cl)}

Delivered(ev, kb) ==
    CASE Mode = "normal" -> ev \in kb.normal
      [] Mode = "insert" -> ev \in kb.insert
      [] Mode = "command" -> ev \in CommandEvents(command_buffer, kb.lines)

\* The keyboard of the key-dispatcher specification: the keys of the
\* normal-mode chain that edit, undo, redo or change the mode, typing in
\* insert mode, and a command line that is left at once.
KeysKeyboard ==
    Keyboard({Key_Escape, Ctrl_r, Shift(":")}
               \cup {Plain(c) : c \in {":", "i", "x", "d", "u", "g"}},
             {Key_Escape, Key_Return} \cup {Plain(c) : c \in TypedChars},
             {<<":">>})

\* The keyboard of the command-line specification: the keys that enter and
\* leave the modes, one typed character, and the command lines.
CmdKeyboard ==
    Keyboard({Plain(":"), Plain("i")},
             {Key_Escape} \cup {Plain(c) : c \in TypedChars},
             CommandLines)

\* The keyboard of the file specification: typing and the save command.
FilesKeyboard ==
    Keyboard({Plain(":"), Plain("i")},
             {Key_Escape} \cup {Plain(c) : c \in TypedChars},
             {<<":", "w">>})

\* The keyboard of the lint specification: the command lines that switch
\* the file, nothing typed into the buffer.
LintKeyboard == Keyboard({Plain(":")}, {}, OpenCommandLines)

\* The keyboard of the specification of `:e` with a name no file has: `x`
\* makes the buffer differ from the file before the command is typed.
OpenKeyboard == Keyboard({Plain(":"), Plain("x")}, {}, {<<":", "e", " ", "x">>})

\* The keyboard of the auto-lint specification: the keys that change the
\* text (x, u, and a character typed in insert mode) and the way into and
\* out of insert mode.
AutoLintKeyboard ==
    Keyboard({Plain("x"), Plain("u"), Plain("i")},
             {Key_Escape} \cup {Plain(c) : c \in TypedChars}, {})

\* The keyboard of the timer specification: `x` edits the open file.
TimersKeyboard == Keyboard({Plain("x")}, {}, {})

\* The states the bounds admit: the text grows only within the bounds.
WithinBounds(s) ==
    /\ IF InBounds(s.text) THEN TRUE ELSE DocLen(s.text) <= DocLen(text)
    /\ Len(s.undoStack) + Len(s.redoStack) <= MaxUndo
    /\ s.aiDepth <= MaxNest
    /\ Len(s.procs) <= MaxProcs
    /\ Len(s.terminal_output) <= MaxTerminal
    /\ Cardinality(s.temp_files) <= MaxTemps

\* A key event is delivered to the editor widget.
KeyPress(ev, kb) ==
    /\ ~closed
    /\ Delivered(ev, kb)
    /\ LET s0 == [State EXCEPT !.calls = <<>>, !.executed = NoCommand,
                               !.last_key = [ev |-> ev, mode |-> Mode],
                               !.key_run = IF last_key # [ev |-> ev, mode |-> Mode] THEN 0
                                           ELSE IF @ = 1 THEN 2 ELSE 1]
           s1 == keyPressEvent(s0, ev)
       IN WithinBounds(s1) /\ Becomes(s1)

\* What call_ai shows after the request: the response text, the notice of
\* an empty response, or the error.
AiOutcomes == {"response", "No response text received from Gemini", "Gemini Error"}

\* call_ai returns from processEvents(), makes the request, shows its
\* outcome, and the Return branch of vim_key_handler runs to its end.
CallAiReturn(outcome) ==
    /\ ~closed
    /\ aiDepth > 0
    /\ LET s1 == [State EXCEPT !.ai_output = <<Msg(outcome, <<>>)>>,
                               !.aiDepth = @ - 1]
       IN Becomes(FinishReturn(s1))

\* auto_lint_timer fires: lint_code.
LintTimeout ==
    /\ ~closed
    /\ lint_timer
    /\ Becomes(lint_code([State EXCEPT !.lint_timer = FALSE]))

\* What PyQt5 does with an exception that leaves a slot: from 5.5 on it
\* calls qFatal() and the process aborts, before that it prints the
\* traceback and the event loop goes on.
Unhandled(s, aborts) ==
    IF s.raised # None THEN [s EXCEPT !.closed = aborts] ELSE s

\* auto_save_timer fires, every 30 seconds: auto_save.
AutoSaveTimeout ==
    /\ ~closed
    /\ raised = None
    /\ \E aborts \in BOOLEAN : Becomes(Unhandled(auto_save(State), aborts))

\* The ids a new node can take: those after the starter tree's, not in use.
FreeIds == {i \in NodeIds : i > StarterNodes /\ i \notin DOMAIN nodes}

Dirs == {id \in DOMAIN nodes : nodes[id].type = "dir"}

\* create_new_file(parent_index) with the name typed into the dialog.
CreateNewFile(parent, name) ==
    /\ ~closed
    /\ parent \in Dirs
    /\ FreeIds # {}
    /\ LET id == CHOOSE i \in FreeIds : \A j \in FreeIds : i <= j
       IN Becomes([State EXCEPT
                     !.nodes = @ @@ (id :> File(name, EmptyText)),
                     !.children[parent] = Append(@, id)])

\* create_new_folder(parent_index) with the name typed into the dialog.
CreateNewFolder(parent, name) ==
    /\ ~closed
    /\ parent \in Dirs
    /\ FreeIds # {}
    /\ LET id == CHOOSE i \in FreeIds : \A j \in FreeIds : i <= j
       IN Becomes([State EXCEPT
                     !.nodes = @ @@ (id :> Dir(name)),
                     !.children = [@ EXCEPT ![parent] = Append(@, id)] @@ (id :> <<>>)])

\* rename_file(index) with the new name typed into the dialog: the node is
\* renamed, and current_file follows when it was the old name.
RenameFile(id, new_name) ==
    /\ ~closed
    /\ id \in DOMAIN nodes \ {RootId}
    /\ new_name # nodes[id].name
    /\ Becomes([State EXCEPT
                  !.nodes[id].name = new_name,
                  !.current_file = IF @ = nodes[id].name THEN new_name ELSE @])

\* The node `id` and all the nodes below it.
Subtree(ns, ch, id) ==
    {id} \cup (IF ns[id].type = "dir" THEN SeqToSet(PreOrder(ns, ch, ch[id])) ELSE {})

\* remove_item(index): the row of the index is deleted from the children
\* of the item that parent() answers for it, which is what find_parent
\* finds; a row that item does not have is an IndexError.
remove_item(s, id) ==
    LET parent_item == find_parent(s.nodes, s.children, RootId, id)
        row == RowOf(s.children, id)
    IN IF row > Len(s.children[parent_item])
       THEN [s EXCEPT !.raised = "IndexError"]
       ELSE LET removed == s.children[parent_item][row]
                gone == Subtree(s.nodes, s.children, removed)
            IN [s EXCEPT
                  !.nodes = [i \in DOMAIN s.nodes \ gone |-> s.nodes[i]],
                  !.children = [d \in DOMAIN s.children \ gone |->
                                   SelectSeq(s.children[d], LAMBDA c : c # removed)],
                  !.opened_node = IF @ \in gone THEN NoNode ELSE @]

\* delete_file(index), confirmed with Yes: when the node has the name of
\* the open file the editor is cleared and no file is open; then
\* remove_item.
DeleteFile(id) ==
    /\ ~closed
    /\ id \in DOMAIN nodes \ {RootId}
    /\ LET s1 == IF current_file = nodes[id].name
                 THEN [setPlainText(State, EmptyText) EXCEPT !.current_file = NoFile]
                 ELSE State
           s2 == remove_item(s1, id)
       IN IF s2.raised = s1.raised THEN Becomes(s2)
          ELSE \E aborts \in BOOLEAN : Becomes(Unhandled(s2, aborts))

\* run_button.clicked: run_current_file.
RunButton ==
    /\ ~closed
    /\ LET s1 == run_current_file(State)
       IN WithinBounds(s1) /\ Becomes(s1)

\* The lines typed into the terminal input: nothing, `clear`, `python m`
\* and a program, `ls`.
TerminalCommands == { <<>>, C_clear, C_python \o <<"m">>, <<"l", "s">> }

\* terminal_input.returnPressed: execute_terminal_command.
TerminalReturn(command) ==
    /\ ~closed
    /\ LET s1 == execute_terminal_command(State, command)
       IN WithinBounds(s1) /\ Becomes(s1)

\* The exit codes of the model: success and one failure.
ExitCodes == {0, 1}

RemoveAt(q, i) == SubSeq(q, 1, i - 1) \o SubSeq(q, i + 1, Len(q))

\* The program of a QProcess is running: no signal of it is connected.
ProcessStarted(i) ==
    /\ ~closed
    /\ i \in DOMAIN procs
    /\ procs[i].state = "Starting"
    /\ Becomes([State EXCEPT !.procs[i].state = "Running"])

\* The program of a QProcess cannot be started: QProcess emits
\* errorOccurred(FailedToStart), which no slot is connected to, and never
\* emits finished.
ProcessFailsToStart(i) ==
    /\ ~closed
    /\ i \in DOMAIN procs
    /\ procs[i].state = "Starting"
    /\ Becomes([State EXCEPT !.procs = RemoveAt(@, i)])

\* readyReadStandardOutput (and, of the terminal process, whose channels
\* are not merged, readyReadStandardError): the output is appended.
ProcessOutput(i) ==
    /\ ~closed
    /\ i \in DOMAIN procs
    /\ procs[i].state = "Running"
    /\ LET s1 == handle_output(State, procs[i])
       IN WithinBounds(s1) /\ Becomes(s1)

\* finished(exit_code, exit_status): the slot connected to the process
\* runs; the terminal process has none.
ProcessFinished(i, exit_code, unlinked) ==
    /\ ~closed
    /\ i \in DOMAIN procs
    /\ procs[i].state = "Running"
    /\ procs[i].kind # "run" => unlinked
    /\ LET p == procs[i]
           s0 == [State EXCEPT !.procs = RemoveAt(@, i)]
           s1 == CASE p.kind = "compile" -> handle_compile_finished(s0, p, exit_code)
                   [] p.kind = "run" -> handle_finished(s0, p, exit_code, unlinked)
                   [] OTHER -> s0
       IN WithinBounds(s1) /\ Becomes(s1)

\* open_file(index): a double click on a node of the tree.
OpenFile(id) ==
    /\ ~closed
    /\ id \in DOMAIN nodes \ {RootId}
    /\ Becomes(open_file(State, id))

\* The nodes whose content the bounded buffer can hold.
EditableNodes ==
    {id \in DOMAIN nodes : nodes[id].type = "file" => Editable(nodes[id].content)}

Init ==
    /\ vim_mode = TRUE
    /\ command_mode = FALSE
    /\ insert_mode = FALSE
    /\ mode_label = "NORMAL"
    /\ last_action = None
    /\ command_buffer = <<>>
    /\ current_file = NoFile
    /\ modified = FALSE
    /\ language = None
    /\ text = EmptyText
    /\ cursor = [r |-> 1, c |-> 0]
    /\ undoStack = <<>>
    /\ redoStack = <<>>
    /\ nodes = InitNodes
    /\ children = InitChildren
    /\ gutter = EmptyGutter
    /\ lint_timer = FALSE
    /\ ai_output = <<>>
    /\ terminal_output = <<>>
    /\ temp_files = {}
    /\ procs = <<>>
    /\ closed = FALSE
    /\ raised = None
    /\ ai_ready \in BOOLEAN
    /\ aiDepth = 0
    /\ opened_node = NoNode
    /\ last_key = NoKey
    /\ key_run = 0
    /\ executed = NoCommand
    /\ calls = <<>>
    /\ dispatches = 0

\* The command line, with one new file `n` to create and open.
Next ==
    \/ \E ev \in Events : KeyPress(ev, CmdKeyboard)
    \/ \E outcome \in AiOutcomes : CallAiReturn(outcome)
    \/ FirstFileNamed(nodes, children, N_n) = -1 /\ CreateNewFile(RootId, N_n)
    \/ \E id \in EditableNodes : OpenFile(id)

Spec == Init /\ [][Next]_vars

\* The key dispatcher.
NextKeys ==
    \/ \E ev \in Events : KeyPress(ev, KeysKeyboard)
    \/ LintTimeout

SpecKeys == Init /\ [][NextKeys]_vars

\* The file tree and the save command.
NextFiles ==
    \/ \E ev \in Events : KeyPress(ev, FilesKeyboard)
    \/ \E parent \in NodeIds, name \in NewNames : CreateNewFile(parent, name)
    \/ \E id \in EditableNodes : OpenFile(id)

SpecFiles == Init /\ [][NextFiles]_vars

\* The starter files, the lint timer and the `:e` command.
NextLint ==
    \/ \E ev \in Events : KeyPress(ev, LintKeyboard)
    \/ \E id \in NodeIds : OpenFile(id)
    \/ LintTimeout

SpecLint == Init /\ [][NextLint]_vars

\* The specification of `:e` with a name no file has: files opened from
\* the tree, edited with `x`, and the command typed over them.
NextOpen ==
    \/ \E ev \in Events : KeyPress(ev, OpenKeyboard)
    \/ \E id \in NodeIds : OpenFile(id)
    \/ LintTimeout
SpecOpen == Init /\ [][NextOpen]_vars

\* The specification of Run: files of every kind opened, removed from the
\* tree with their folder, and run from the button, and the processes
\* starting, writing and ending.
NextRun ==
    \/ \E id \in NodeIds : OpenFile(id)
    \/ \E name \in RunNames : CreateNewFile(RootId, name)
    \/ DeleteFile(1)
    \/ RunButton
    \/ \E i \in 1..MaxProcs : ProcessStarted(i)
    \/ \E i \in 1..MaxProcs : ProcessFailsToStart(i)
    \/ \E i \in 1..MaxProcs : ProcessOutput(i)
    \/ \E i \in 1..MaxProcs, exit_code \in ExitCodes, unlinked \in BOOLEAN :
           ProcessFinished(i, exit_code, unlinked)
SpecRun == Init /\ [][NextRun]_vars

\* The specification of the terminal line: commands entered over main.py
\* or no file, and the processes starting, writing and ending.
NextTerminal ==
    \/ OpenFile(3)
    \/ \E command \in TerminalCommands : TerminalReturn(command)
    \/ \E i \in 1..MaxProcs : ProcessStarted(i)
    \/ \E i \in 1..MaxProcs : ProcessFailsToStart(i)
    \/ \E i \in 1..MaxProcs : ProcessOutput(i)
    \/ \E i \in 1..MaxProcs, exit_code \in ExitCodes, unlinked \in BOOLEAN :
           ProcessFinished(i, exit_code, unlinked)
SpecTerminal == Init /\ [][NextTerminal]_vars

\* The nodes renamed and deleted in the file-tree specification: the
\* folders src and docs, the files main.py and README.md, and the nodes
\* added to the starter tree.
MenuNodes == {1, 2, 3, 7} \cup {i \in NodeIds : i > StarterNodes}

\* The specification of the file tree: the four operations of its context
\* menu, with the names of NewNames typed into the dialogs, and files opened.
NextTree ==
    \/ \E parent \in NodeIds, name \in NewNames : CreateNewFile(parent, name)
    \/ \E parent \in NodeIds, name \in NewNames : CreateNewFolder(parent, name)
    \/ \E id \in MenuNodes, new_name \in NewNames : RenameFile(id, new_name)
    \/ \E id \in MenuNodes : DeleteFile(id)
    \/ \E id \in NodeIds : OpenFile(id)
SpecTree == Init /\ [][NextTree]_vars

\* The specification of the auto-lint timer: text changed by keys and by
\* opening files, and the timer firing.  The event loop fires a timer that
\* is due: weak fairness of LintTimeout, WF_vars(LintTimeout), written out
\* with the enabling condition of LintTimeout, lint_timer /\ ~closed.
NextAutoLint ==
    \/ \E ev \in Events : KeyPress(ev, AutoLintKeyboard)
    \/ \E id \in NodeIds : OpenFile(id)
    \/ LintTimeout
LintTimeoutIsFair ==
    \/ []<>~(lint_timer /\ ~closed)
    \/ []<><<LintTimeout>>_vars
SpecAutoLint == Init /\ [][NextAutoLint]_vars /\ LintTimeoutIsFair

\* The specification of the timers: files opened from the tree and edited
\* with `x`, and the two timers firing between the keys.
NextTimers ==
    \/ \E ev \in Events : KeyPress(ev, TimersKeyboard)
    \/ \E id \in NodeIds : OpenFile(id)
    \/ LintTimeout
    \/ AutoSaveTimeout
SpecTimers == Init /\ [][NextTimers]_vars

\* The lines of the texts given to the linter: an import, an indented
\* import, a line ending with a colon, a TODO and a print.
LintSampleLines ==
    { <<"i", "m", "p", "o", "r", "t", " ", "x">>,
      <<" ", " ", " ", " ", "i", "m", "p", "o", "r", "t", " ", "x">>,
      <<"x", ":">>,
      <<"T", "O", "D", "O">>,
      <<"p", "r", "i", "n", "t", "(", "x", ")">> }
LintTexts ==
    UNION {[1..n -> LintSampleLines] : n \in 1..MaxLintLines}

\* The editor after main.py was saved with one of the texts and opened
\* again from the tree: open_file on the starter state with that content.
InitLintText ==
    /\ vim_mode = TRUE
    /\ command_mode = FALSE
    /\ insert_mode = FALSE
    /\ mode_label = "NORMAL"
    /\ last_action = None
    /\ command_buffer = <<>>
    /\ current_file = N_main_py
    /\ modified = FALSE
    /\ language = set_document_language(N_main_py)
    /\ text \in LintTexts
    /\ cursor = [r |-> 1, c |-> 0]
    /\ undoStack = <<>>
    /\ redoStack = <<>>
    /\ nodes = [InitNodes EXCEPT ![3].content = text]
    /\ children = InitChildren
    /\ gutter = EmptyGutter
    /\ lint_timer = TRUE
    /\ ai_output = <<>>
    /\ terminal_output = <<>>
    /\ temp_files = {}
    /\ procs = <<>>
    /\ closed = FALSE
    /\ raised = None
    /\ ai_ready \in BOOLEAN
    /\ aiDepth = 0
    /\ opened_node = 3
    /\ last_key = NoKey
    /\ key_run = 0
    /\ executed = NoCommand
    /\ calls = <<>>
    /\ dispatches = 0

\* The keyboard of the linter specification: the command `:lint`.
LintTextKeyboard == Keyboard({Plain(":")}, {}, {C_lint})

\* The specification of the linter over given texts: the lint pass of the
\* timer and the one of `:lint`.
NextLintText ==
    \/ \E ev \in Events : KeyPress(ev, LintTextKeyboard)
    \/ LintTimeout
SpecLintText == InitLintText /\ [][NextLintText]_vars

\* ------------------------------------------------------------------- claims
\* A step in which a key event is delivered, as opposed to a timer, a click
\* or the return of a call.
KeyStep == <<last_key, key_run>>' # <<last_key, key_run>>

\* The key event ev is delivered while the editor is in `mode`.
KeyIn(ev, mode) == KeyStep /\ last_key' = [ev |-> ev, mode |-> mode]

\* C1: starting in normal mode an unmodified `i` puts the editor in insert
\* mode and a following Escape puts it back in normal mode; after the round
\* trip insert_mode, command_mode and the buffer text have the values they
\* had before the `i`.  Between the two keys only steps that are not key
\* events can happen, and they leave the flags and the text alone.
C1_InsertEscapeRoundTrip ==
    [][ /\ KeyIn(Plain("i"), "normal")
             => insert_mode' /\ ~command_mode' /\ text' = text
        /\ (KeyStep /\ last_key = [ev |-> Plain("i"), mode |-> "normal"]
                    /\ last_key'.ev = Key_Escape)
             => ~insert_mode' /\ ~command_mode' /\ text' = text
        /\ ~KeyStep => UNCHANGED <<insert_mode, command_mode, text>> ]_vars

\* C1 happens: Escape was handled in insert mode, the editor is back in
\* normal mode, and nothing was ever typed, so that the Escape followed the
\* `i` directly.
C1_Witness ==
    /\ last_key = [ev |-> Key_Escape, mode |-> "insert"]
    /\ calls = <<"set_normal_mode">>
    /\ Mode = "normal"
    /\ mode_label = "NORMAL"
    /\ undoStack = <<>> /\ redoStack = <<>>

\* C2: in normal mode a `d` keystroke deletes the line under the cursor only
\* when the immediately preceding keystroke, of any kind and in any mode, was
\* also `d`.
C2_DeleteOnlyAfterD ==
    [][ (KeyIn(Plain("d"), "normal") /\ text' # text)
          => last_key.ev.text = "d" ]_vars

\* C2 fails in this state: the last key, a `d` in normal mode, removed the
\* text of a line, and the key before it was not a `d`.
C2_Witness ==
    /\ last_key = [ev |-> Plain("d"), mode |-> "normal"]
    /\ key_run = 0
    /\ calls = <<"removeSelectedText">>
    /\ undoStack # <<>>
    /\ \E i \in 1..Len(undoStack[1]) : undoStack[1][i] # <<>>
    /\ text = EmptyText

\* C3: in normal mode every keystroke whose text is `:` switches to command
\* mode with the command buffer exactly `:` and leaves the buffer text
\* unchanged.
C3_ColonEntersCommandMode ==
    [][ (KeyStep /\ last_key'.mode = "normal" /\ last_key'.ev.text = ":")
          => command_mode' /\ command_buffer' = <<":">> /\ text' = text ]_vars

\* C3 fails in this state: a `:` typed with Shift was inserted into the
\* buffer and the editor is still in normal mode.
C3_Witness ==
    /\ last_key = [ev |-> Shift(":"), mode |-> "normal"]
    /\ calls = <<"insert">>
    /\ Mode = "normal"
    /\ \E i \in 1..Len(text) : \E j \in 1..Len(text[i]) : text[i][j] = ":"

\* C4: in command mode keystrokes accumulate in the command buffer (text is
\* appended, Backspace removes the last character) without changing the mode
\* or the buffer text until Return; on Return the accumulated command is
\* dispatched exactly once, and when the Return handler has run to its end
\* the command buffer is empty and the editor is in normal mode.
C4_CommandLine ==
    [][ /\ (KeyStep /\ last_key'.mode = "command"
                    /\ last_key'.ev.key \notin {"Return", "Escape"})
             => /\ command_mode' /\ ~insert_mode'
                /\ text' = text
                /\ last_key'.ev.key = "Backspace"
                     => command_buffer' = SubSeq(command_buffer, 1, Len(command_buffer) - 1)
                /\ (last_key'.ev.key = "Char" /\ last_key'.ev.mods # "ctrl")
                     => command_buffer' = Append(command_buffer, last_key'.ev.text)
        /\ KeyIn(Key_Return, "command")
             => /\ executed' = command_buffer
                /\ dispatches' = 1
                /\ aiDepth' = aiDepth => command_buffer' = <<>> /\ Mode' = "normal"
        /\ aiDepth' < aiDepth => command_buffer' = <<>> /\ Mode' = "normal" ]_vars

\* C4 fails in this state: the command typed after one `:` has been
\* dispatched a second time, by a Return handled inside call_ai.
C4_Witness ==
    /\ last_key = [ev |-> Key_Return, mode |-> "command"]
    /\ dispatches = 2
    /\ executed = C_fix

\* C5: executing `:wq` saves the current file and then closes the window.
C5_WqSavesAndCloses ==
    [][ (KeyStep /\ executed' = C_wq)
          => calls' = <<"save_file", "close">> /\ closed' ]_vars

\* C5 fails in this state: `:wq` was executed with a file open, the file was
\* saved and the window is still open.
C5_Witness ==
    /\ executed = C_wq
    /\ calls = <<"save_file">>
    /\ current_file # NoFile
    /\ ~closed

\* What "reported as unknown, with no other effect" says of the step that
\* executes `command`: the panel shows the report, nothing is saved, the
\* window stays open, the file, the buffer and the gutter stay as they are,
\* nothing runs and the AI is not called.
ReportedUnknown(command) ==
    /\ ai_output' = <<Msg("Unknown command", command)>>
    /\ calls' = <<"unknown_command">>
    /\ UNCHANGED << nodes, children, modified, closed, current_file, language,
                    text, cursor, undoStack, redoStack, gutter, lint_timer,
                    terminal_output, temp_files, procs, aiDepth, opened_node >>

\* The fixed commands as the specification lists them.
FixedCommand(command) ==
    \/ command \in {C_w, C_q, C_wq, C_fix, C_explain, C_opt, C_test, C_run, C_lint}
    \/ IsPrefix(C_e, command) /\ Len(command) > Len(C_e)
    \/ IsPrefix(C_ai, command) /\ Len(command) > Len(C_ai)

\* The commands the chain of execute_vim_command takes up: the prefixes
\* `:w`, `:q`, `:e `, `:ai `, `:lint` and the whole words `:fix`, `:explain`,
\* `:opt`, `:test`, `:run`.
TakenUp(command) ==
    \/ \E p \in {C_w, C_q, C_e, C_ai, C_lint} : IsPrefix(p, command)
    \/ command \in {C_fix, C_explain, C_opt, C_test, C_run}

\* C6, as stated: a command that is not one of the fixed commands is reported
\* as `Unknown command: <command>` and has no other effect.
C6_NotFixedIsUnknown ==
    [][ (KeyStep /\ executed' # NoCommand /\ ~FixedCommand(executed'))
          => ReportedUnknown(executed') ]_vars

\* C6, amended: a command that starts with none of the prefixes `:w`, `:q`,
\* `:e `, `:ai `, `:lint` and is none of `:fix`, `:explain`, `:opt`, `:test`,
\* `:run` is reported as `Unknown command: <command>` and has no other effect.
C6_NotTakenUpIsUnknown ==
    [][ (KeyStep /\ executed' # NoCommand /\ ~TakenUp(executed'))
          => ReportedUnknown(executed') ]_vars

\* C6 happens: `:x` was executed and reported, with a file open.
C6_Witness ==
    /\ executed = <<":", "x">>
    /\ ai_output = <<Msg("Unknown command", <<":", "x">>)>>
    /\ current_file # NoFile
    /\ Mode = "normal"

\* C7: after `:w` with a file open, the content of the tree node of the file
\* that was opened equals the buffer text, the content of every other node is
\* unchanged, and the modified flag is False.
C7_SaveWritesOpenedNode ==
    [][ (KeyStep /\ executed' = C_w /\ current_file # NoFile)
          => /\ nodes'[opened_node].content = text'
             /\ \A id \in DOMAIN nodes \ {opened_node} : nodes'[id] = nodes[id]
             /\ ~modified' ]_vars

\* C7 fails in this state: `:w` stored the buffer text in another file of
\* the same name, and the node that was opened kept its content.
C7_Witness ==
    /\ executed = C_w
    /\ opened_node # NoNode
    /\ nodes[opened_node].content # text
    /\ \E id \in DOMAIN nodes \ {opened_node} :
           nodes[id].name = current_file /\ nodes[id].content = text
                                         /\ nodes[id].content # InitNodes[id].content

\* An unmodified `u` is delivered in normal mode.
UKey == KeyIn(Plain("u"), "normal")

\* editor.undo() is called once: with a history, the text goes one step back.
OneUndoStep ==
    /\ calls' = <<"undo">>
    /\ IF undoStack # <<>>
       THEN /\ text' = Head(undoStack)
            /\ undoStack' = Tail(undoStack)
            /\ redoStack' = <<text>> \o redoStack
       ELSE UNCHANGED <<text, undoStack, redoStack>>

NoUndoStep == calls' = <<>> /\ UNCHANGED <<text, undoStack, redoStack>>

\* C8, as stated: every unmodified `u` in normal mode, whatever keystroke
\* preceded it, performs exactly one undo step on the buffer.
C8_EveryUUndoes == [][ UKey => OneUndoStep ]_vars

\* C8, amended: an unmodified `u` in normal mode performs exactly one undo
\* step when last_action, the text of the last key the normal-mode chain
\* recorded, is not `u`, and no undo step when it is `u`.
C8_UUndoesUnlessRepeated ==
    [][ UKey => IF last_action # "u" THEN OneUndoStep ELSE NoUndoStep ]_vars

\* C8 happens: a `u` undid one step, and the `u` after it did nothing
\* although the history holds a further step.
C8_Witness ==
    /\ last_key = [ev |-> Plain("u"), mode |-> "normal"]
    /\ last_action = "u"
    /\ calls = <<>>
    /\ undoStack # <<>>
    /\ redoStack # <<>>

\* C9: in normal mode a Ctrl+r keystroke invokes redo on the buffer through
\* the modal dispatcher.
C9_CtrlRRedoes ==
    [][ KeyIn(Ctrl_r, "normal")
          => /\ "redo" \in SeqToSet(calls')
             /\ redoStack # <<>> => text' = Head(redoStack) ]_vars

\* C9 fails in this state: Ctrl+r was delivered in normal mode with a step
\* to redo, and no call was made.
C9_Witness ==
    /\ last_key = [ev |-> Ctrl_r, mode |-> "normal"]
    /\ calls = <<>>
    /\ redoStack # <<>>

\* C10: in normal mode two consecutive `g` keystrokes move the cursor to the
\* start of the buffer.
C10_GGMovesToStart ==
    [][ (KeyIn(Plain("g"), "normal") /\ last_key = [ev |-> Plain("g"), mode |-> "normal"])
          => cursor' = [r |-> 1, c |-> 0] ]_vars

\* C10 fails in this state: the last two keys were `g` in normal mode and
\* the cursor is not at the start.
C10_Witness ==
    /\ last_key = [ev |-> Plain("g"), mode |-> "normal"]
    /\ key_run = 1
    /\ last_action = "g"
    /\ cursor # [r |-> 1, c |-> 0]

\* The second `d` of two `d` keystrokes in a row is delivered in normal mode.
DDKey ==
    /\ KeyIn(Plain("d"), "normal")
    /\ last_key = [ev |-> Plain("d"), mode |-> "normal"]
    /\ key_run' = 1

\* The lines of t without line r.
WithoutLine(t, r) == SubSeq(t, 1, r - 1) \o SubSeq(t, r + 1, Len(t))

\* C11: after `dd` in normal mode the line under the cursor is removed: a
\* buffer of n > 1 lines has n-1 lines afterwards, and the other lines are
\* unchanged and keep their order.
C11_DDRemovesLine ==
    [][ (DDKey /\ Len(text) > 1) => text' = WithoutLine(text, cursor.r) ]_vars

\* C11 fails in this state: `dd` was handled in a buffer of two lines, the
\* line removal was called, and the buffer still has two lines.
C11_Witness ==
    /\ last_key = [ev |-> Plain("d"), mode |-> "normal"]
    /\ key_run = 1
    /\ calls = <<"removeSelectedText">>
    /\ Len(text) = 2
    /\ text[cursor.r] = <<>>

\* The calls by which the normal-mode keys edit the text: x, dd, u, redo, and
\* the undo of the widget's own Ctrl+Z.
ListedEdits ==
    { <<"deleteChar">>, <<"removeSelectedText">>, <<"undo">>, <<"redo">>,
      <<"shortcut_undo">> }

\* C12: in normal mode a keystroke only moves the cursor or performs one of
\* the listed edits; no keystroke delivered in normal mode inserts its
\* character into the buffer text, whatever modifiers it carries.
C12_NormalModeInsertsNothing ==
    [][ (KeyStep /\ last_key'.mode = "normal")
          => /\ "insert" \notin SeqToSet(calls')
             /\ text' = text \/ calls' \in ListedEdits ]_vars

\* C12 fails in this state: a key pressed with Shift in normal mode put its
\* character into the buffer, before the cursor.
C12_Witness ==
    /\ last_key.mode = "normal"
    /\ last_key.ev.mods = "shift"
    /\ calls = <<"insert">>
    /\ cursor.c > 0
    /\ text[cursor.r][cursor.c] = last_key.ev.text
    /\ lint_timer

\* A lint pass: the auto-lint timer fires.
LintPass == lint_timer /\ ~lint_timer'

\* The gutter that holds exactly what a lint pass over the text t computes.
GutterOf(t) ==
    LET lines == SplitLines(Flatten(t))
    IN [ error_lines |-> SeqToSet(LintLines(lines, "error", 1)),
         warning_lines |-> SeqToSet(LintLines(lines, "warning", 1)),
         info_lines |-> SeqToSet(LintLines(lines, "info", 1)),
         error_messages |-> LintMessages(lines, "error"),
         warning_messages |-> LintMessages(lines, "warning"),
         info_messages |-> LintMessages(lines, "info") ]

\* C13: after every lint pass on an open file the three line sets and the
\* three message maps of the gutter hold exactly the lines and messages that
\* pass computed; nothing of an earlier pass or an earlier file remains.
C13_GutterIsLastPass ==
    [][ (LintPass /\ current_file # NoFile) => gutter' = GutterOf(text) ]_vars

\* C13 fails in this state: README.md is open and linted, the pass found
\* nothing, and the gutter still maps lines to warnings of an earlier file.
C13_Witness ==
    /\ current_file = N_README_md
    /\ ~lint_timer
    /\ ai_output = <<Msg("Linting complete", <<0, 0, 0, <<>>, <<>>, <<>>>>)>>
    /\ gutter.warning_lines = {}
    /\ gutter.warning_messages # EmptyMap

\* C14: after the open file is switched, by open_file or by `:e <name>`, the
\* gutter holds no line and no message of the file open before: all it held
\* came from that file or from files before it, so it is empty.
C14_SwitchClearsGutter ==
    [][ (opened_node' # opened_node /\ opened_node # NoNode)
          => gutter' = EmptyGutter ]_vars

\* C14 fails in this state: `:e README.md` has switched the file, and the
\* gutter still marks the lines of the file open before.
C14_Witness ==
    /\ last_key = [ev |-> Key_Return, mode |-> "command"]
    /\ calls = <<"find_and_open_file">>
    /\ current_file = N_README_md
    /\ lint_timer
    /\ gutter.warning_lines # {}
    /\ gutter.info_messages # EmptyMap

\* It fails after open_file too: a double click has switched the file, the
\* line sets are empty, and the messages of the file open before remain.
C14_MessagesKept ==
    /\ last_key = NoKey
    /\ current_file = N_README_md
    /\ lint_timer
    /\ gutter.warning_lines = {}
    /\ gutter.warning_messages # EmptyMap

\* The name a `:e <name>` command line asks for.
NameOf(command) == Strip(SubSeq(command, 4, Len(command)))
\* The key step dispatches `:e <name>` and no file of the tree has the name.
OpensMissing ==
    /\ KeyIn(Key_Return, "command")
    /\ executed' # NoCommand
    /\ IsPrefix(C_e, executed')
    /\ FirstFileNamed(nodes, children, NameOf(executed')) = -1

\* C17: `:e <name>` with no file of that name in the tree shows
\* `File not found: <name>` in the panel and leaves the open file, the
\* buffer text, the modified flag, the highlighter language and the tree as
\* they were.
C17_MissingFileChangesNothing ==
    [][ OpensMissing
          => /\ ai_output' = <<Msg("File not found", NameOf(executed'))>>
             /\ UNCHANGED <<current_file, text, modified, language,
                            nodes, children>> ]_vars

\* C17 happens: `:e x` was dispatched over an open, modified file, which is
\* still open and modified, and the panel names the missing file.
C17_Witness ==
    /\ last_key = [ev |-> Key_Return, mode |-> "command"]
    /\ executed = <<":", "e", " ", "x">>
    /\ calls = <<"find_and_open_file">>
    /\ ai_output = <<Msg("File not found", <<"x">>)>>
    /\ current_file = N_testing_c
    /\ modified
    /\ text # nodes[opened_node].content
    /\ language = "c"

\* C15: no failure is fatal: after a failing operation and after a timer
\* callback (auto-save, auto-lint) no exception has escaped the handler,
\* and the editor is still running, in normal, insert or command mode.
C15_NoFailureIsFatal ==
    /\ raised = None
    /\ ~closed
    /\ Mode \in {"normal", "insert", "command"}

\* C15 fails in this state: the auto-save timer fired over the modified
\* main.py, the file was saved, the exception of the next line left the
\* slot, and the process aborted.
C15_Witness ==
    /\ raised = "AttributeError"
    /\ closed
    /\ current_file = N_main_py
    /\ ~modified
    /\ text # C_main_py
    /\ nodes[opened_node].content = text
    /\ ai_output = <<Msg("Saved", N_main_py)>>

\* The step is the end of a process that failed: its program could not be
\* started, or it finished with an exit code other than 0.
ProcessFails ==
    \E i \in DOMAIN procs :
        \/ ProcessFailsToStart(i)
        \/ \E exit_code \in ExitCodes \ {0}, unlinked \in BOOLEAN :
               ProcessFinished(i, exit_code, unlinked)

\* C16: every failure of an external process started by Run or by the
\* terminal input line, a non-zero exit code or a program that cannot be
\* started, appends text to the terminal output.
C16_FailureAppendsText ==
    [][ ProcessFails => Len(terminal_output') > Len(terminal_output) ]_vars

\* C16 fails on the way to this state: `ls` was entered in the terminal
\* line, its process has ended, and the terminal holds the echo of the
\* command and nothing else.
C16_Witness ==
    /\ current_file = NoFile
    /\ procs = <<>>
    /\ terminal_output = <<Msg("$", <<"l", "s">>)>>

\* The processes the step starts.
NewProcs ==
    LET Count(p, q) == Cardinality({i \in DOMAIN q : q[i] = p})
    IN {p \in SeqToSet(procs') : p.state = "Starting" /\ Count(p, procs') > Count(p, procs)}
Compiled == { <<".", "j", "a", "v", "a">>, <<".", "c">>, <<".", "c", "p", "p">> }

\* C18: for a .java, .c or .cpp file Run starts a compile process and no
\* other; the compiled program is started only by the step in which the
\* compile process of the same temp file finishes with exit code 0; and
\* when a compile process finishes with another exit code no process is
\* started and a `Compilation failed` line is appended to the terminal.
C18_CompileBeforeRun ==
    [][ /\ (RunButton /\ current_file # NoFile /\ FileExt(current_file) \in Compiled)
             => \A p \in NewProcs : p.kind = "compile"
        /\ \A p \in NewProcs :
               (p.kind = "run" /\ p.ext \in Compiled)
                 => \E i \in DOMAIN procs :
                        /\ procs[i].kind = "compile"
                        /\ procs[i].temp = p.temp
                        /\ procs[i].ext = p.ext
                        /\ ProcessFinished(i, 0, TRUE)
        /\ \A i \in DOMAIN procs, exit_code \in ExitCodes \ {0} :
               (procs[i].kind = "compile" /\ ProcessFinished(i, exit_code, TRUE))
                 => /\ NewProcs = {}
                    /\ terminal_output' =
                         Append(terminal_output,
                                Msg("Compilation failed with exit code", exit_code))
      ]_vars

\* C18 happens: testing.c was run, gcc finished with exit code 0, and the
\* executable is the one process, started after the compile line.
C18_Witness ==
    /\ current_file = N_testing_c
    /\ Len(procs) = 1
    /\ procs[1].kind = "run"
    /\ procs[1].program = "exe"
    /\ procs[1].ext = <<".", "c">>
    /\ terminal_output = << Msg("Running", N_testing_c), Msg("Compiling with", "gcc"),
                            Msg("Running with", "exe") >>

\* The program the claim names for a file name, by its lower-cased
\* extension, or None.
ProgramFor(name) ==
    LET low == [i \in 1..Len(name) |-> Lower(name[i])]
    IN CASE EndsWith(low, <<".", "p", "y">>) -> "python"
         [] EndsWith(low, <<".", "j", "s">>) -> "node"
         [] EndsWith(low, <<".", "j", "a", "v", "a">>) -> "javac"
         [] EndsWith(low, <<".", "c">>) -> "gcc"
         [] EndsWith(low, <<".", "c", "p", "p">>) -> "g++"
         [] OTHER -> None
\* What Run does with the open file according to the claim.
RunByExtension ==
    IF current_file # NoFile /\ ProgramFor(current_file) # None
    THEN {p.program : p \in NewProcs} = {ProgramFor(current_file)}
    ELSE /\ NewProcs = {}
         /\ terminal_output' # <<>>
         /\ terminal_output'[Len(terminal_output')].kind
              \in {"Error: No file is currently open", "Error: Unsupported file type"}

C20_UniqueNames ==
    \A d \in DOMAIN children :
        \A i, j \in DOMAIN children[d] :
            i # j => nodes[children[d][i]].name # nodes[children[d][j]].name

\* C20 fails in this state: a new file main.py was added to src, which now
\* has two children of that name.
C20_Witness ==
    /\ Len(children[1]) = 5
    /\ nodes[children[1][1]].name = N_main_py
    /\ nodes[children[1][5]] = File(N_main_py, EmptyText)

\* C21: the lint pass is deterministic: what a pass over an open file leaves
\* on every line of the buffer, its membership in the error, warning and
\* info lines and the message shown for it, is the same function of the
\* buffer text in every pass, whatever passes came before.
C21_LintIsFunctionOfText ==
    [][ (LintPass /\ current_file # NoFile)
          => \A l \in 1..Len(text) :
                /\ l \in gutter'.error_lines <=> l \in GutterOf(text).error_lines
                /\ l \in gutter'.warning_lines <=> l \in GutterOf(text).warning_lines
                /\ l \in gutter'.info_lines <=> l \in GutterOf(text).info_lines
                /\ Tooltip(gutter', l) = Tooltip(GutterOf(text), l) ]_vars

\* C21 fails in this state: a pass over utils.py has marked no line, and
\* line 2 shows the message a pass over main.py left.
C21_Witness ==
    /\ current_file = N_utils_py
    /\ ~lint_timer
    /\ ai_output = <<Msg("Linting complete", <<0, 0, 0, <<>>, <<>>, <<>>>>)>>
    /\ gutter.info_lines = {}
    /\ Tooltip(gutter, 2) = <<"Info", "Consider using f-strings for better readability">>

C23_AutoSaveTick ==
    [][ AutoSaveTimeout
          => IF modified /\ current_file # NoFile
             THEN /\ nodes'[FirstFileNamed(nodes, children, current_file)].content = text
                  /\ text' = text
                  /\ ~modified'
                  /\ ai_output' # <<>>
                  /\ ai_output'[Len(ai_output')].kind = "Auto-saved file"
             ELSE UNCHANGED <<nodes, children, text, modified, ai_output>> ]_vars

\* C23 fails in this state: the tick saved the modified main.py, the panel
\* shows the message of save_file only, and an exception left the slot (the
\* process went on).
C23_Witness ==
    /\ raised = "AttributeError"
    /\ ~closed
    /\ current_file = N_main_py
    /\ ~modified
    /\ nodes[3].content = text
    /\ text # C_main_py
    /\ ai_output = <<Msg("Saved", N_main_py)>>

\* C24: after any sequence of open, rename and delete operations, when a
\* file is open a file with its name is in the tree (and save_file finds
\* it).
C24_OpenFileIsInTree ==
    current_file # NoFile => FirstFileNamed(nodes, children, current_file) # -1

\* C24 fails in this state: main.py is open, the folder src was deleted
\* with it, and no file of the tree has the name.
C24_Witness ==
    /\ current_file = N_main_py
    /\ text = C_main_py
    /\ 1 \notin DOMAIN nodes
    /\ 3 \notin DOMAIN nodes
    /\ opened_node = NoNode
    /\ \A id \in DOMAIN nodes : nodes[id].name # N_main_py

\* The step renames or deletes a node that is not the open file.
OtherNodeChanged ==
    \E id \in NodeIds :
        /\ current_file # NoFile => id # opened_node
        /\ \/ DeleteFile(id)
           \/ \E new_name \in NewNames : RenameFile(id, new_name)

\* C25: renaming or deleting a node of the tree other than the open file
\* leaves current_file and the buffer text as they were.
C25_OtherNodesLeaveOpenFile ==
    [][ OtherNodeChanged => UNCHANGED <<current_file, text>> ]_vars

\* C25 fails in this state: main.py of src was opened and is still in the
\* tree, a second node named main.py was deleted, and no file is open and
\* the buffer is empty.
C25_Witness ==
    /\ opened_node = 3
    /\ 3 \in DOMAIN nodes
    /\ nodes[3] = File(N_main_py, C_main_py)
    /\ current_file = NoFile
    /\ text = EmptyText
    /\ lint_timer

\* C26: for every node of the tree but the root, find_parent(root, node) is
\* the directory whose children list holds the node.
C26_FindParentIsContainer ==
    \A id \in DOMAIN nodes \ {RootId} :
        find_parent(nodes, children, RootId, id) = Container(children, id)

\* C26 fails in this state: the folder docs, emptied and renamed to n, and
\* the new folder n inside src are equal item by item, and find_parent
\* answers src for docs, which is a child of the root.
C26_Witness ==
    /\ 8 \in DOMAIN nodes
    /\ 2 \in DOMAIN nodes
    /\ Container(children, 8) = 1
    /\ Container(children, 2) = RootId
    /\ Same(nodes, children, 2, 8)
    /\ find_parent(nodes, children, RootId, 2) = 1

\* C27: once a run has ended, that is when no process of it is left, the
\* temp file made for it is deleted, whatever the outcome of the run.
C27_TempFilesRemoved ==
    procs = <<>> => temp_files = {}

\* C27 fails in this state: Run on README.md wrote the temp file and ended
\* with `Unsupported file type`, no process was started and the temp file
\* is still there.
C27_Witness ==
    /\ current_file = N_README_md
    /\ procs = <<>>
    /\ temp_files # {}
    /\ terminal_output =
           << Msg("Running", N_README_md),
              Msg("Error: Unsupported file type", <<".", "m", "d">>) >>

\* C28: in command mode the command buffer begins with `:`, and so does
\* the string that the last Return passed to execute_vim_command.
C28_CommandBufferHasColon ==
    /\ command_mode => IsPrefix(<<":">>, command_buffer)
    /\ executed # NoCommand => IsPrefix(<<":">>, executed)

\* C28 fails in this state: Backspace was pressed on the command line `:`,
\* the editor is still in command mode and the buffer is empty.
C28_Witness ==
    /\ command_mode
    /\ mode_label = "COMMAND"
    /\ command_buffer = <<>>
    /\ last_key = [ev |-> Key_Backspace, mode |-> "command"]

\* C29: in every reachable state insert_mode and command_mode are not both
\* true, vim_mode is true, and the mode label is the one of the mode the
\* two flags give: COMMAND, INSERT, or NORMAL when both are false.
C29_ModeFlagsAgree ==
    /\ ~(insert_mode /\ command_mode)
    /\ vim_mode
    /\ mode_label = IF command_mode THEN "COMMAND"
                    ELSE IF insert_mode THEN "INSERT" ELSE "NORMAL"

\* The three modes were gone through: a character was typed in insert
\* mode, Escape left it, and `:` entered command mode.
C29_Witness ==
    /\ command_mode
    /\ ~insert_mode
    /\ mode_label = "COMMAND"
    /\ modified
    /\ text # EmptyText
    /\ last_key = [ev |-> Plain(":"), mode |-> "normal"]
    /\ calls = <<"set_command_mode">>

\* The step ran lint_code on an open file: the pass of the timer, or `:lint`.
LintCodeRan ==
    /\ current_file # NoFile
    /\ \/ LintPass
       \/ executed' = C_lint /\ dispatches' = dispatches + 1

\* C30: after a lint pass the counts of the summary (Errors, Warnings, Info)
\* are the numbers of lines marked in the gutter as error, warning and info.
C30_SummaryCountsGutterLines ==
    [][ LintCodeRan =>
          /\ ai_output'[1].kind = "Linting complete"
          /\ ai_output'[1].arg[1] = Cardinality(gutter'.error_lines)
          /\ ai_output'[1].arg[2] = Cardinality(gutter'.warning_lines)
          /\ ai_output'[1].arg[3] = Cardinality(gutter'.info_lines) ]_vars

\* C30 fails in this state: the second line is an indented import, after a
\* line that does not end with a colon; the pass marked the two lines as
\* warnings and the summary counts three.
C30_Witness ==
    /\ text = << <<"i", "m", "p", "o", "r", "t", " ", "x">>,
                 <<" ", " ", " ", " ", "i", "m", "p", "o", "r", "t", " ", "x">> >>
    /\ ~lint_timer
    /\ gutter.warning_lines = {1, 2}
    /\ ai_output = <<Msg("Linting complete", <<0, 3, 0, <<>>, <<1, 2, 2>>, <<>>>>)>>

====
